---- MODULE Spec2Model ----
(***************************************************************************)
(* ReconnectingWebSocket (src/ReconnectingWebSocket.js): a wrapper that    *)
(* re-opens a WebSocket on a periodic timer after a close event, replays   *)
(* the recorded event listeners on success and gives up when a one-shot    *)
(* budget timer fires.                                                     *)
(*                                                                         *)
(* Time is explicit: the periodic timer (setInterval) and the budget       *)
(* timers (setTimeout) carry due times, and the clock never passes a due   *)
(* timer.  The WebSocket objects and the application are the environment.  *)
(***************************************************************************)
EXTENDS Integers, Sequences, FiniteSets, TLC

\* ---------------------------------------------------------------- bounds
MaxTime == 30
TimeStep == 10
MaxTransports == 3
MaxListeners == 2

\* ------------------------------------------------------- configurations
\* autoReconnectMS / stopReconnectingAfter values the constructor is given.
Intervals == {10}
Budgets == {25, 20, 0, -5}
\* Symbolic durations the constructor is given as well.
SymbolicBudgets == {"h"}
Factories == {"normal", "stuck-closed"}

\* this.reconnectInterval = null (also the initial undefined): falsy.
Null == 0

\* The listener tuple addCloseEventListener records: ['close', handler].
handleWebSocketCloseEventArgs == <<"close", "handleWebSocketCloseEvent">>

\* Argument lists the application passes to add/removeEventListener.
AppArgs == { <<"open", "onOpen">>,
             <<"open", "onOpen", "capture">> }


VARIABLES
    now,                      \* the clock, in ms
    autoReconnectMS,          \* this.autoReconnectMS
    stopReconnectingAfter,    \* the stopReconnectingAfter option as passed
    stopReconnectingAfterMS,  \* this.stopReconnectingAfterMS
    factory,                  \* how replacement transports behave
    instance,                 \* this.instance: index of the current WebSocket
    nWs,                      \* number of WebSockets created so far
    ws,                       \* the WebSockets: readyState and listener list
    eventListeners,           \* this.eventListeners
    reconnectAttempts,        \* this.reconnectAttempts
    reconnectInterval,        \* this.reconnectInterval: a timer id or Null
    intervals,                \* live setInterval timers: [id, due]
    timeouts,                 \* pending setTimeout (budget) timers: [ep, due]
    episode,                  \* number of close events handled so far
    episodeStart,             \* time of the last handled close event
    succeeded,                \* episodes that ended in a successful reconnect
    gaveUp,                   \* a budget timer has stopped a retry cycle
    ticks,                    \* attempts logged in the current episode
    registeredBefore,         \* argument lists recorded when the last retry
                              \* cycle began and not added or removed since
    addedInCycle,             \* argument lists added during the running retry
                              \* cycle and not removed since
    closeCalled,              \* the running retry cycle began with the close
                              \* event of a transport close() was called on
                              \* and has ticked at most once
    unsubscribed              \* recorded argument lists the application
                              \* removed and has not added again

vars == <<now, autoReconnectMS, stopReconnectingAfter,
          stopReconnectingAfterMS, factory, instance,
          nWs, ws, eventListeners, reconnectAttempts, reconnectInterval,
          intervals, timeouts, episode, episodeStart, succeeded, gaveUp,
          ticks, registeredBefore, addedInCycle, closeCalled, unsubscribed>>

config == <<autoReconnectMS, stopReconnectingAfter, stopReconnectingAfterMS,
           factory>>
history == <<episode, episodeStart, succeeded, gaveUp, ticks>>
subscriptions == <<registeredBefore, addedInCycle, unsubscribed, closeCalled>>

\* ------------------------------------------------- the duration option
\* JavaScript values of the stopReconnectingAfter option: a finite number,
\* a string, or anything else (NaN, Infinity, undefined, ...).
Num(n) == [num |-> n]
Str(s) == [str |-> s]
Other(v) == [other |-> v]

\* Number.isFinite(time): no coercion, true of finite numbers only.
IsFinite(time) == DOMAIN time = {"num"}

\* Variant: the factor 60 for the minutes is missing.
convertHoursToMSNoMinutes(hours) == hours * 1000 * 60

\* const convertDaysToMS = days => days * 1000 * 60 * 60 * 24
convertDaysToMS(days) == days * 1000 * 60 * 60 * 24
\* const convertHoursToMS = hours => hours * 1000 * 60 * 60
convertHoursToMS(hours) == hours * 1000 * 60 * 60

dayInMS == convertDaysToMS(1)
hourInMS == convertHoursToMS(1)

\* parseTimeToMS (lines 7-27)
parseTimeToMS(time) ==
    IF IsFinite(time) THEN time
    ELSE IF time \in {Str("d"), Str("D"), Str("day")} THEN Num(dayInMS)
    ELSE IF time \in {Str("h"), Str("H"), Str("hour")} THEN Num(hourInMS)
    ELSE time

\* Values of the option the constructor is given here: each is parsed to a
\* finite number of milliseconds.
BudgetOptions == { Num(b) : b \in Budgets } \cup { Str(x) : x \in SymbolicBudgets }

\* ------------------------------------------------------------- helpers
Min(a, b) == IF a <= b THEN a ELSE b

Range(s) == { s[i] : i \in 1..Len(s) }

\* EventTarget identifies a listener by (type, callback, capture).
ListenerKey(args) ==
    <<args[1], args[2],
      IF Len(args) >= 3 /\ args[3] = "capture" THEN "capture" ELSE "bubble">>

\* EventTarget.addEventListener: appends unless the same listener is there.
TargetAdd(listeners, args) ==
    IF ListenerKey(args) \in Range(listeners)
    THEN listeners
    ELSE Append(listeners, ListenerKey(args))

\* EventTarget.removeEventListener.
TargetRemove(listeners, args) ==
    SelectSeq(listeners, LAMBDA k : k # ListenerKey(args))

\* eventListener.every((eventListenerArg, index) => args[index] === eventListenerArg)
EveryArgEqual(eventListener, args) ==
    \A index \in 1..Len(eventListener) :
        index <= Len(args) /\ args[index] = eventListener[index]

\* Variant: nothing is filtered out of the recorded listeners.
KeepEventListeners(listeners, args) == listeners

\* this.eventListeners.filter(eventListener => !eventListener.every(...))
FilterEventListeners(listeners, args) ==
    SelectSeq(listeners, LAMBDA eventListener : ~EveryArgEqual(eventListener, args))

\* Variant: replays the recorded listeners from the last to the first.
RECURSIVE attachInReverseOrder(_, _)
attachInReverseOrder(listeners, recorded) ==
    IF recorded = << >>
    THEN listeners
    ELSE TargetAdd(attachInReverseOrder(listeners, Tail(recorded)), Head(recorded))

\* this.eventListeners.forEach(l => this.instance.addEventListener(...l))
RECURSIVE attachPreviousEventListeners(_, _)
attachPreviousEventListeners(listeners, recorded) ==
    IF recorded = << >>
    THEN listeners
    ELSE attachPreviousEventListeners(TargetAdd(listeners, Head(recorded)),
                                      Tail(recorded))

\* Variant: the counter is left as it is.
keepReconnectAttempts(attempts) == attempts

\* resetReconnectAttempts: this.reconnectAttempts = 0
resetReconnectAttempts(attempts) == 0

\* Variant: the budget timer is started whatever the budget is.
BudgetAlways(ms) == TRUE

\* if (this.stopReconnectingAfterMS > 0)
BudgetEnabled(ms) == ms > 0

\* Variant: every new WebSocket gets the close listener.
AlwaysAddCloseEventListener(interval) == TRUE

\* if (!this.reconnectInterval) in initWebSocketInstance
ShouldAddCloseEventListener(interval) == interval = Null

\* Variant: every transport that is not open is replaced.
ReopenUnlessOpen(readyState) == readyState # "OPEN"

\* if (readyState === WebSocket.CLOSED || readyState === WebSocket.CLOSING)
ShouldReopen(readyState) == readyState \in {"CLOSED", "CLOSING"}

\* Variant: a transport still connecting counts as open.
OpenOrConnecting(readyState) == readyState \in {"OPEN", "CONNECTING"}

\* else if (readyState === WebSocket.OPEN)
ObservesOpen(readyState) == readyState = "OPEN"

\* if (this.reconnectInterval) in the budget callback
CycleActive(interval) == interval # Null

\* readyState of a WebSocket just constructed
NewReadyState == "CONNECTING"

NoWs == [readyState |-> "NONE", listeners |-> << >>]

\* Variant: the handle is forgotten but the timer is not cleared.
LeakInterval(timers, id) == timers

\* stopReconnecting: clearInterval(this.reconnectInterval)
ClearInterval(timers, id) == { t \in timers : t.id # id }


\* ------------------------------------------------------------ constructor
\* constructor: reconnectAttempts = 0, eventListeners = [], then
\* initWebSocketInstance(), which attaches the close listener because
\* this.reconnectInterval is still undefined.
Init ==
    /\ now = 0
    /\ autoReconnectMS \in Intervals
    /\ stopReconnectingAfter \in BudgetOptions
    /\ stopReconnectingAfterMS = parseTimeToMS(stopReconnectingAfter).num
    /\ factory \in Factories
    /\ instance = 1
    /\ nWs = 1
    /\ reconnectAttempts = 0
    /\ reconnectInterval = Null
    /\ eventListeners =
          IF ShouldAddCloseEventListener(Null)
          THEN <<handleWebSocketCloseEventArgs>> ELSE << >>
    /\ ws = [t \in 1..MaxTransports |->
                IF t = 1
                THEN [readyState |-> NewReadyState,
                      listeners  |->
                          IF ShouldAddCloseEventListener(Null)
                          THEN TargetAdd(<< >>, handleWebSocketCloseEventArgs)
                          ELSE << >>]
                ELSE NoWs]
    /\ intervals = {}
    /\ timeouts = {}
    /\ episode = 0
    /\ episodeStart = 0
    /\ succeeded = {}
    /\ gaveUp = FALSE
    /\ ticks = << >>
    /\ registeredBefore = {}
    /\ addedInCycle = {}
    /\ unsubscribed = {}
    /\ closeCalled = FALSE

\* ------------------------------------------------------------ the timers
TimerDue == \/ \E t \in intervals : t.due <= now
            \/ \E b \in timeouts : b.due <= now

NextDue == { t.due : t \in intervals } \cup { b.due : b \in timeouts }

\* Variant: a one-shot timer (setTimeout in place of setInterval).
OneShot(timers, t) == timers \ {t}

\* The interval timer `t` after its callback ran: rescheduled one period
\* later unless the callback cleared it.
Reschedule(timers, t) ==
    IF t \in timers
    THEN (timers \ {t}) \cup {[id |-> t.id, due |-> t.due + autoReconnectMS]}
    ELSE timers

\* The setInterval callback of startReconnecting (lines 109-123).
Tick(t) ==
    /\ t \in intervals
    /\ t.due <= now
    /\ reconnectAttempts' = 
          IF ObservesOpen(ws[instance].readyState)
          THEN resetReconnectAttempts(reconnectAttempts + 1)
          ELSE reconnectAttempts + 1
    /\ \/ \* readyState === CLOSED || readyState === CLOSING
          /\ ShouldReopen(ws[instance].readyState)
          /\ nWs < MaxTransports
          /\ LET removed  == FilterEventListeners(eventListeners,
                                                  handleWebSocketCloseEventArgs)
                 detached == [ws EXCEPT ![instance].listeners =
                                 TargetRemove(@, handleWebSocketCloseEventArgs)]
                 new      == nWs + 1
                 add      == ShouldAddCloseEventListener(reconnectInterval)
             IN  /\ instance' = new
                 /\ nWs' = new
                 /\ eventListeners' =
                        IF add THEN Append(removed, handleWebSocketCloseEventArgs)
                               ELSE removed
                 /\ ws' = [detached EXCEPT ![new] =
                             [readyState |-> NewReadyState,
                              listeners  |->
                                 IF add
                                 THEN TargetAdd(<< >>, handleWebSocketCloseEventArgs)
                                 ELSE << >>]]
          /\ intervals' = Reschedule(intervals, t)
          /\ ticks' = Append(ticks, <<now - episodeStart, reconnectAttempts + 1, "new">>)
          /\ UNCHANGED <<reconnectInterval, succeeded, addedInCycle>>
       \/ \* else if (readyState === WebSocket.OPEN)
          /\ ~ShouldReopen(ws[instance].readyState)
          /\ ObservesOpen(ws[instance].readyState)
          /\ intervals' = Reschedule(ClearInterval(intervals, reconnectInterval), t)
          /\ reconnectInterval' = Null
          /\ ws' = [ws EXCEPT ![instance].listeners =
                       TargetAdd(attachPreviousEventListeners(@, eventListeners),
                                 handleWebSocketCloseEventArgs)]
          /\ eventListeners' = Append(eventListeners, handleWebSocketCloseEventArgs)
          /\ ticks' = Append(ticks, <<now - episodeStart, reconnectAttempts + 1, "open">>)
          /\ succeeded' = succeeded \cup {episode}
          /\ addedInCycle' = {}
          /\ UNCHANGED <<instance, nWs>>
       \/ \* CONNECTING: nothing this tick
          /\ ~ShouldReopen(ws[instance].readyState)
          /\ ~ObservesOpen(ws[instance].readyState)
          /\ intervals' = Reschedule(intervals, t)
          /\ ticks' = Append(ticks, <<now - episodeStart, reconnectAttempts + 1, "wait">>)
          /\ UNCHANGED <<instance, nWs, ws, eventListeners, reconnectInterval,
                         succeeded, addedInCycle>>
    /\ closeCalled' = (closeCalled /\ ticks = << >>)
    /\ UNCHANGED <<now, config, timeouts, episode, episodeStart, gaveUp,
                   registeredBefore, unsubscribed>>

\* The setTimeout callback of handleWebSocketCloseEvent (lines 65-70).
BudgetFire(b) ==
    /\ b \in timeouts
    /\ b.due <= now
    /\ timeouts' = timeouts \ {b}
    /\ IF CycleActive(reconnectInterval)
       THEN /\ intervals' = ClearInterval(intervals, reconnectInterval)
            /\ reconnectInterval' = Null
            /\ reconnectAttempts' = resetReconnectAttempts(reconnectAttempts)
            /\ gaveUp' = TRUE
            /\ addedInCycle' = {}
            /\ closeCalled' = FALSE
       ELSE /\ UNCHANGED <<intervals, reconnectInterval, reconnectAttempts, gaveUp,
                           addedInCycle, closeCalled>>
    /\ UNCHANGED <<now, config, instance, nWs, ws, eventListeners, episode,
                   episodeStart, succeeded, ticks, registeredBefore, unsubscribed>>

\* ------------------------------------------------------- the WebSockets
\* A connecting WebSocket opens.
WsOpen(t) ==
    /\ ws[t].readyState = "CONNECTING"
    /\ factory = "stuck-closed" => t = 1
    /\ ws' = [ws EXCEPT ![t].readyState = "OPEN"]
    /\ UNCHANGED <<now, config, instance, nWs, eventListeners, reconnectAttempts,
                   reconnectInterval, intervals, timeouts, history,
                   subscriptions>>

\* A WebSocket closes: readyState becomes CLOSED and its close event is
\* dispatched once.  If handleWebSocketCloseEvent is among its listeners it
\* runs (lines 61-72): startReconnecting(), then the budget setTimeout.
WsClose(t) ==
    /\ ws[t].readyState \in {"CONNECTING", "OPEN", "CLOSING"}
    /\ ws' = [ws EXCEPT ![t].readyState = "CLOSED"]
    /\ IF ListenerKey(handleWebSocketCloseEventArgs) \in Range(ws[t].listeners)
       THEN /\ reconnectInterval' = episode + 1
            /\ intervals' = intervals \cup
                   {[id |-> episode + 1, due |-> now + autoReconnectMS]}
            /\ timeouts' =
                   IF BudgetEnabled(stopReconnectingAfterMS)
                   THEN timeouts \cup
                        {[ep |-> episode + 1, due |-> now + stopReconnectingAfterMS]}
                   ELSE timeouts
            /\ episode' = episode + 1
            /\ episodeStart' = now
            /\ ticks' = << >>
            /\ registeredBefore' = Range(eventListeners) \cap AppArgs
            /\ addedInCycle' = {}
            /\ closeCalled' = (ws[t].readyState = "CLOSING")
       ELSE /\ UNCHANGED <<reconnectInterval, intervals, timeouts, episode,
                           episodeStart, ticks, registeredBefore, addedInCycle,
                           closeCalled>>
    /\ UNCHANGED <<now, config, instance, nWs, eventListeners, reconnectAttempts,
                   succeeded, gaveUp, unsubscribed>>

\* ------------------------------------------------------ the application
AppEntries == SelectSeq(eventListeners, LAMBDA e : e \in AppArgs)

\* addEventListener(...args) (lines 141-144)
addEventListener(args) ==
    /\ Len(AppEntries) < MaxListeners
    /\ eventListeners' = Append(eventListeners, args)
    /\ ws' = [ws EXCEPT ![instance].listeners = TargetAdd(@, args)]
    /\ registeredBefore' = registeredBefore \ {args}
    /\ addedInCycle' = IF reconnectInterval # Null
                       THEN addedInCycle \cup {args} ELSE addedInCycle
    /\ unsubscribed' = unsubscribed \ {args}
    /\ UNCHANGED <<now, config, instance, nWs, reconnectAttempts,
                   reconnectInterval, intervals, timeouts, history, closeCalled>>

\* removeEventListener(...args) (lines 151-155)
removeEventListener(args) ==
    /\ eventListeners' = FilterEventListeners(eventListeners, args)
    /\ ws' = [ws EXCEPT ![instance].listeners = TargetRemove(@, args)]
    /\ registeredBefore' =
          (registeredBefore \cap Range(eventListeners')) \ {args}
    /\ addedInCycle' = addedInCycle \ {args}
    /\ unsubscribed' = unsubscribed \cup ({args} \cap Range(eventListeners))
    /\ UNCHANGED <<now, config, instance, nWs, reconnectAttempts,
                   reconnectInterval, intervals, timeouts, history, closeCalled>>

\* Variant: close() also detaches the disconnect observer.
closeForGood ==
    /\ ws[instance].readyState \in {"CONNECTING", "OPEN"}
    /\ ws' = [ws EXCEPT ![instance].readyState = "CLOSING",
                        ![instance].listeners =
                            TargetRemove(@, handleWebSocketCloseEventArgs)]
    /\ eventListeners' = FilterEventListeners(eventListeners,
                                              handleWebSocketCloseEventArgs)
    /\ UNCHANGED <<now, config, instance, nWs, reconnectAttempts,
                   reconnectInterval, intervals, timeouts, history,
                   subscriptions>>

\* close() (lines 157-159): this.instance.close()
close ==
    /\ ws[instance].readyState \in {"CONNECTING", "OPEN"}
    /\ ws' = [ws EXCEPT ![instance].readyState = "CLOSING"]
    /\ UNCHANGED <<now, config, instance, nWs, eventListeners, reconnectAttempts,
                   reconnectInterval, intervals, timeouts, history,
                   subscriptions>>

\* ------------------------------------------------------------ the clock
\* Time passes up to the next due timer.  A stuck-closed factory fails every
\* replacement transport at once.
Advance ==
    /\ now < MaxTime
    /\ ~TimerDue
    /\ factory = "stuck-closed" =>
          \A t \in 2..MaxTransports : ws[t].readyState # "CONNECTING"
    /\ LET step == Min(now + TimeStep, MaxTime)
           dues == { d \in NextDue : d <= step }
       IN  now' = IF dues = {} THEN step
                  ELSE CHOOSE d \in dues : \A e \in dues : d <= e
    /\ UNCHANGED <<config, instance, nWs, ws, eventListeners, reconnectAttempts,
                   reconnectInterval, intervals, timeouts, history,
                   subscriptions>>

Next ==
    \/ \E t \in intervals : Tick(t)
    \/ \E b \in timeouts : BudgetFire(b)
    \/ \E t \in 1..MaxTransports : WsOpen(t)
    \/ \E t \in 1..MaxTransports : WsClose(t)
    \/ \E args \in AppArgs : addEventListener(args)
    \/ \E args \in AppArgs : removeEventListener(args)
    \/ close
    \/ Advance

Spec == Init /\ [][Next]_vars


\* ======================================================= shared notions
ObserverKey == ListenerKey(handleWebSocketCloseEventArgs)

LastTick == ticks[Len(ticks)]

\* This step is a timer tick (one more attempt is logged).
IsTick == Len(ticks') = Len(ticks) + 1

\* This step is the success transition: a tick that saw the transport open.
IsSuccessTick == IsTick /\ ticks'[Len(ticks')][3] = "open"

\* Position of listener k in a listener list (0 when absent).
PositionOf(k, listeners) ==
    IF k \in Range(listeners)
    THEN CHOOSE i \in 1..Len(listeners) : listeners[i] = k
    ELSE 0

Occurrences(k, listeners) ==
    Cardinality({ i \in 1..Len(listeners) : listeners[i] = k })

\* The current episode has not reconnected and its own budget is running.
\* The budget is no multiple of the interval, so no tick coincides with a
\* budget expiry: every earlier episode (each ended by its successful tick)
\* ended strictly before its budget elapsed.
WithinOwnBudget ==
    /\ episode > 0
    /\ episode \notin succeeded
    /\ stopReconnectingAfterMS > 0
    /\ stopReconnectingAfterMS % autoReconnectMS # 0
    /\ now < episodeStart + stopReconnectingAfterMS

\* The scenario of the specification: retry every 10 ms, give up after 25 ms,
\* the first transport closes at t = 0.
Scenario ==
    /\ autoReconnectMS = 10
    /\ stopReconnectingAfterMS = 25
    /\ episode = 1
    /\ episodeStart = 0

\* ================================================================== C1
\* C1: while a disconnect episode is within its own budget and has not yet
\* reconnected, the manager can still reach an open transport: either the
\* retry cycle is running or the current transport is connecting or open.
\* (Once the periodic timer is off and the current transport is closed no
\* step of the manager ever replaces the transport, so the open state with
\* counter 0 that the claim promises is never reached.)
C1_ReconnectsWithinBudget ==
    WithinOwnBudget =>
        \/ reconnectInterval # Null
        \/ ws[instance].readyState \in {"CONNECTING", "OPEN"}

\* ================================================================== C2
\* C2: a budget timer that fires after its own episode ended in a successful
\* reconnect (and later than the start of the latest episode) changes neither
\* the periodic timer nor the attempt counter.
C2_StaleBudgetIsNoOp ==
    [][\A b \in timeouts :
          (b \notin timeouts' /\ b.ep \in succeeded /\ now > episodeStart) =>
              /\ reconnectInterval' = reconnectInterval
              /\ intervals' = intervals
              /\ reconnectAttempts' = reconnectAttempts]_vars

C4_BudgetExpiryIsFinal ==
    [][gaveUp' =>
          /\ reconnectInterval' = Null
          /\ intervals' = {}
          /\ reconnectAttempts' = 0
          /\ gaveUp => /\ ~IsTick
                       /\ ticks' = ticks
                       /\ nWs' = nWs
                       /\ instance' = instance]_vars

\* A budget timer stopped a cycle after two attempts and time went on.
C4_Witness ==
    /\ gaveUp
    /\ Len(ticks) = 2
    /\ now > episodeStart + stopReconnectingAfterMS
    /\ reconnectInterval = Null
    /\ reconnectAttempts = 0

\* ================================================================== C5
\* C5: at most one periodic timer is live and it is the one the manager
\* holds; while it is live no transport that can still close carries the
\* disconnect observer, so no close event starts a second cycle.
C5_OneRetryCycle ==
    /\ Cardinality(intervals) <= 1
    /\ reconnectInterval = Null <=> intervals = {}
    /\ \A t \in intervals : t.id = reconnectInterval
    /\ reconnectInterval # Null =>
          \A t \in 1..MaxTransports :
              ObserverKey \in Range(ws[t].listeners) =>
                  ws[t].readyState = "CLOSED"

\* A second retry cycle is running after the first one succeeded.
C5_Witness ==
    /\ episode = 2
    /\ 1 \in succeeded
    /\ reconnectInterval = 2
    /\ Len(ticks) >= 1

\* ================================================================== C6
\* C6: removeEventListener with a tuple that equals no recorded entry leaves
\* the recorded sequence unchanged.
C6_RemoveUnknownIsNoOp ==
    \A args \in AppArgs :
        args \notin Range(eventListeners) =>
            FilterEventListeners(eventListeners, args) = eventListeners

\* ================================================================== C7
\* C7 as stated: in the scenario, the success transition on the transport
\* opened by the first tick happens at t = 10.
C7_SuccessAtFirstTick ==
    [][(Scenario /\ instance = 2 /\ IsSuccessTick) => now = 10]_vars

\* C7 as amended: in the scenario, the success transition on the transport
\* opened by the first tick (t = 10) happens at the second tick, t = 20; it
\* leaves the periodic timer stopped and the attempt counter 0, and every
\* recorded subscription is attached to the new transport exactly once.
C7_SuccessAtSecondTick ==
    [][(Scenario /\ instance = 2 /\ IsSuccessTick) =>
          /\ now = 20
          /\ ticks' = << <<10, 1, "new">>, <<20, 2, "open">> >>
          /\ reconnectInterval' = Null
          /\ intervals' = {}
          /\ reconnectAttempts' = 0
          /\ \A i \in 1..Len(eventListeners) :
                Occurrences(ListenerKey(eventListeners[i]),
                            ws'[2].listeners) = 1]_vars

\* The scenario reconnected on the second transport, with a subscription.
C7_Witness ==
    /\ Scenario
    /\ instance = 2
    /\ 1 \in succeeded
    /\ now = 20
    /\ reconnectInterval = Null
    /\ reconnectAttempts = 0
    /\ ListenerKey(<<"open", "onOpen">>) \in Range(ws[2].listeners)
    /\ <<"open", "onOpen">> = eventListeners[1]

\* ================================================================== C8
\* C8: with every replacement transport stuck in closed, the k-th tick of the
\* episode fires k intervals after the close event, reports attempt k and
\* opens a new transport; no tick fires after the budget; when the budget
\* timer fires every multiple of the interval before the budget has ticked,
\* the cycle is stopped and the counter is 0.  With interval 10 and budget 25
\* the ticks are exactly those at 10 and 20.
C8_TicksUntilBudget ==
    (factory = "stuck-closed" /\ episode >= 1) =>
        /\ \A k \in 1..Len(ticks) :
              /\ ticks[k] = <<k * autoReconnectMS, k, "new">>
              /\ stopReconnectingAfterMS > 0 =>
                    k * autoReconnectMS <= stopReconnectingAfterMS
        /\ gaveUp =>
              /\ (Len(ticks) + 1) * autoReconnectMS >= stopReconnectingAfterMS
              /\ reconnectInterval = Null
              /\ reconnectAttempts = 0
              /\ now >= episodeStart + stopReconnectingAfterMS
        /\ (gaveUp /\ autoReconnectMS = 10 /\ stopReconnectingAfterMS = 25) =>
              ticks = << <<10, 1, "new">>, <<20, 2, "new">> >>
        /\ (~gaveUp /\ reconnectInterval # Null) => reconnectAttempts = Len(ticks)

\* The scenario with a stuck-closed factory gave up at t = 25 after two ticks.
C8_Witness ==
    /\ Scenario
    /\ factory = "stuck-closed"
    /\ gaveUp
    /\ now = 25
    /\ nWs = 3
    /\ Len(ticks) = 2

\* ================================================================== C9
\* C9: after a budget timer has stopped a retry cycle the manager's current
\* transport is never open.
C9_NeverOpenAfterGiveUp ==
    gaveUp => ws[instance].readyState # "OPEN"

\* ================================================================= C10
\* C10: with a budget of 0 or less no budget timer is ever pending, a retry
\* cycle ends only by a tick that sees the current transport open, and while
\* the cycle runs the next tick is always scheduled and the attempt counter
\* counts every tick of the episode.
C10_NoBudgetNoGiveUp ==
    [][stopReconnectingAfterMS <= 0 =>
          /\ timeouts' = {}
          /\ ~gaveUp'
          /\ (reconnectInterval # Null /\ reconnectInterval' = Null) =>
                (ws[instance].readyState = "OPEN" /\ IsSuccessTick)
          /\ reconnectInterval' # Null =>
                /\ \E t \in intervals' : t.due <= now' + autoReconnectMS
                /\ reconnectAttempts' = Len(ticks')]_vars

\* Without a budget the cycle is still ticking at its third attempt, past
\* the point where a budget of 25 would have stopped it.
C10_Witness ==
    /\ stopReconnectingAfterMS <= 0
    /\ reconnectInterval # Null
    /\ reconnectAttempts >= 3
    /\ ws[instance].readyState = "CONNECTING"


\* ================================================================= C11
\* C11: every listener attached to the current transport is recorded in the
\* subscription registry.
C11_RegistryCoversTransport ==
    \A k \in Range(ws[instance].listeners) :
        \E e \in Range(eventListeners) : ListenerKey(e) = k

\* ================================================================= C12
\* C12: at most one budget timer is pending (counting only timers whose due
\* time lies ahead, so a timer about to fire at this instant is left out).
C12_OneBudgetTimer ==
    Cardinality({ b \in timeouts : b.due > now }) <= 1

\* ================================================================= C15
\* C15: a tick that finds the current transport closed or closing removes
\* the disconnect observer from that transport and from the registry and
\* opens a replacement without it; while the periodic timer is active, once
\* a tick has run, neither the current transport nor the registry holds the
\* observer.
C15_ObserverOnlyAfterSuccess ==
    [][/\ (IsTick /\ ws[instance].readyState \in {"CLOSED", "CLOSING"}) =>
             /\ instance' = nWs + 1
             /\ ws'[instance'].readyState = "CONNECTING"
             /\ ObserverKey \notin Range(ws'[instance'].listeners)
             /\ ObserverKey \notin Range(ws'[instance].listeners)
             /\ handleWebSocketCloseEventArgs \notin Range(eventListeners')
       /\ (reconnectInterval' # Null /\ ticks' # << >>) =>
             /\ ObserverKey \notin Range(ws'[instance'].listeners)
             /\ handleWebSocketCloseEventArgs \notin Range(eventListeners')
       /\ (ObserverKey \notin Range(ws[instance'].listeners)
           /\ ObserverKey \in Range(ws'[instance'].listeners)) => IsSuccessTick]_vars

\* A replacement transport is connecting, without the observer, while the
\* periodic timer is active; the stale transport lost the observer too.
C15_Witness ==
    /\ reconnectInterval # Null
    /\ instance = 2
    /\ Len(ticks) = 1
    /\ ws[2].readyState = "CONNECTING"
    /\ ObserverKey \notin Range(ws[2].listeners)
    /\ ObserverKey \notin Range(ws[1].listeners)
    /\ handleWebSocketCloseEventArgs \notin Range(eventListeners)

\* ================================================================= C16
\* C16: a tick that finds the current transport connecting adds one to the
\* attempt counter and changes nothing else: the current transport, the
\* registry, the transports' listeners and the timer handle stay as they
\* are, and the periodic timer stays live.
C16_ConnectingTickOnlyCounts ==
    [][(IsTick /\ ws[instance].readyState = "CONNECTING") =>
          /\ reconnectAttempts' = reconnectAttempts + 1
          /\ instance' = instance
          /\ nWs' = nWs
          /\ ws' = ws
          /\ eventListeners' = eventListeners
          /\ timeouts' = timeouts
          /\ reconnectInterval' = reconnectInterval
          /\ reconnectInterval' # Null
          /\ \E t \in intervals' : /\ t.id = reconnectInterval'
                                   /\ t.due = now + autoReconnectMS]_vars

\* A tick has just found the replacement transport still connecting.
C16_Witness ==
    /\ Len(ticks) = 2
    /\ LastTick[3] = "wait"
    /\ reconnectAttempts = 2
    /\ reconnectInterval # Null
    /\ ws[instance].readyState = "CONNECTING"

\* ================================================================= C18
\* C18: whenever no periodic timer is active the attempt counter is 0, and
\* the k-th tick of a retry cycle reports attempt number k.
C18_CounterZeroWhenIdle ==
    /\ reconnectInterval = Null => reconnectAttempts = 0
    /\ \A k \in 1..Len(ticks) : ticks[k][2] = k
    /\ reconnectInterval # Null => reconnectAttempts = Len(ticks)

\* The second retry cycle, started after a success, is at its first tick.
C18_Witness ==
    /\ episode = 2
    /\ 1 \in succeeded
    /\ reconnectInterval # Null
    /\ Len(ticks) = 1
    /\ reconnectAttempts = 1


\* ================================================================= C13
\* Values parseTimeToMS is applied to: numbers, the symbolic durations,
\* other strings and values that are no finite number.
ParseInputs ==
    { Num(n) : n \in {-5, 0, 1, 25, 3000, 3600000, 86400000} }
    \cup { Str(x) : x \in {"d", "D", "day", "h", "H", "hour",
                           "", "days", "Day", "m", "25", "1h"} }
    \cup { Other(v) : v \in {"NaN", "Infinity", "-Infinity", "undefined", "null"} }

\* C13: parseTimeToMS maps 'd', 'D' and 'day' to 86,400,000 and 'h', 'H' and
\* 'hour' to 3,600,000 and returns every other value, finite number or not,
\* unchanged; the result is the configured budget.
C13_ParseTimeToMS ==
    /\ \A time \in ParseInputs :
          parseTimeToMS(time) =
             CASE time \in {Str("d"), Str("D"), Str("day")}  -> Num(86400000)
               [] time \in {Str("h"), Str("H"), Str("hour")} -> Num(3600000)
               [] OTHER -> time
    /\ stopReconnectingAfter \in {Str("d"), Str("D"), Str("day")} =>
          stopReconnectingAfterMS = 86400000
    /\ stopReconnectingAfter \in {Str("h"), Str("H"), Str("hour")} =>
          stopReconnectingAfterMS = 3600000
    /\ IsFinite(stopReconnectingAfter) =>
          stopReconnectingAfter = Num(stopReconnectingAfterMS)
    /\ \A b \in timeouts : b.due - stopReconnectingAfterMS \in 0..MaxTime

\* Configured with 'h', a close event started a budget timer of one hour.
C13_Witness ==
    /\ stopReconnectingAfter = Str("h")
    /\ stopReconnectingAfterMS = 3600000
    /\ episode = 1
    /\ timeouts = {[ep |-> 1, due |-> episodeStart + 3600000]}


\* ================================================================= C14
\* Listeners of the given event type on WebSocket t: those the dispatch of
\* an event of that type invokes.
Invoked(t, type) == { k \in Range(ws[t].listeners) : k[1] = type }

\* A replacement WebSocket t fires its open event in this step.
IsOpenEvent(t) ==
    /\ t > 1
    /\ ws[t].readyState = "CONNECTING"
    /\ ws'[t].readyState = "OPEN"

\* C14: the open event of a replacement transport invokes no 'open' listener
\* registered before the disconnect; such a listener is attached to the
\* replacement only by a tick that observes it open already.
C14_OpenListenerMissesReopen ==
    [][\A t \in 2..MaxTransports :
          /\ IsOpenEvent(t) =>
                \A a \in registeredBefore :
                    a[1] = "open" => ListenerKey(a) \notin Invoked(t, "open")
          /\ \A a \in registeredBefore :
                (/\ a \in registeredBefore'
                 /\ ListenerKey(a) \notin Range(ws[t].listeners)
                 /\ ListenerKey(a) \in Range(ws'[t].listeners)) =>
                    /\ IsSuccessTick
                    /\ t = instance
                    /\ ws[t].readyState = "OPEN"]_vars

\* An 'open' listener registered before the disconnect is on the open
\* replacement, attached by the success tick, and was not on it before.
C14_Witness ==
    /\ <<"open", "onOpen">> \in registeredBefore
    /\ instance = 2
    /\ ws[2].readyState = "OPEN"
    /\ reconnectInterval = Null
    /\ 1 \in succeeded
    /\ Len(ticks) = 2
    /\ LastTick[3] = "open"
    /\ ListenerKey(<<"open", "onOpen">>) \in Range(ws[2].listeners)
    /\ ListenerKey(<<"open", "onOpen">>) \in Range(ws[1].listeners)


\* ================================================================= C17
\* C17: a subscription removed with removeEventListener and not added again
\* is on no transport that is current afterwards; a subscription added
\* during a retry cycle and not removed is on the transport the cycle
\* succeeds on.
C17_RemovedStayAwayAddedArrive ==
    [][/\ \A a \in unsubscribed' :
              ListenerKey(a) \notin Range(ws'[instance'].listeners)
       /\ IsSuccessTick =>
              \A a \in addedInCycle :
                  ListenerKey(a) \in Range(ws'[instance'].listeners)]_vars


\* ================================================================= C19
\* This step is the application's close(): the current transport starts
\* closing.
IsCloseCall ==
    /\ ws[instance].readyState \in {"CONNECTING", "OPEN"}
    /\ ws'[instance].readyState = "CLOSING"

\* The close event of transport t is dispatched in this step.
IsCloseEvent(t) ==
    /\ ws[t].readyState # "CLOSED"
    /\ ws'[t].readyState = "CLOSED"

\* C19: close() only starts the closing of the current transport: timers,
\* counter, registry and the transports' listeners stay as they are.  The
\* close event that follows, like that of an unexpected disconnect, starts
\* a retry cycle and, with a positive budget, a budget timer when the
\* transport carries the disconnect observer.
C19_CloseStartsRetryCycle ==
    [][/\ IsCloseCall =>
             /\ UNCHANGED <<instance, nWs, eventListeners, reconnectAttempts,
                            reconnectInterval, intervals, timeouts, episode>>
             /\ \A t \in 1..MaxTransports :
                    ws'[t].listeners = ws[t].listeners
       /\ \A t \in 1..MaxTransports :
             (IsCloseEvent(t) /\ ObserverKey \in Range(ws[t].listeners)) =>
                 /\ closeCalled' = (ws[t].readyState = "CLOSING")
                 /\ episode' = episode + 1
                 /\ reconnectInterval' # Null
                 /\ [id |-> reconnectInterval', due |-> now + autoReconnectMS]
                        \in intervals'
                 /\ stopReconnectingAfterMS > 0 =>
                        [ep |-> episode', due |-> now + stopReconnectingAfterMS]
                            \in timeouts'
                 /\ stopReconnectingAfterMS <= 0 => timeouts' = timeouts
                 /\ UNCHANGED <<reconnectAttempts, eventListeners, instance>>]_vars

\* close() was called on the first transport, its close event started a
\* retry cycle with a budget timer, and the replacement the cycle made is
\* open.
C19_Witness ==
    /\ closeCalled
    /\ episode = 1
    /\ reconnectInterval # Null
    /\ \E b \in timeouts : b.ep = 1
    /\ instance = 2
    /\ ws[1].readyState = "CLOSED"
    /\ ws[2].readyState = "OPEN"

====
